---- MODULE Spec2Model ----
(***************************************************************************)
(* A model of src/src/comp_graph.rs: the CompGraph builder (init,          *)
(* constant, add, mul, hint, assert_equal), the level-parallel evaluator   *)
(* (fill_nodes driving fill_node on a rayon pool) and check_constraints.   *)
(*                                                                         *)
(* Every atomic load and store of a node's `is_some` / `value` cell is one *)
(* step of the worker that performs it (all accesses are SeqCst, so the    *)
(* interleaving of these steps is exactly the set of executions).  A panic *)
(* ends the process: pc = "aborted" is terminal.                           *)
(***************************************************************************)
EXTENDS Integers, Sequences, FiniteSets, TLC

(***************************************************************************)
(* Bounds of the model.                                                    *)
(***************************************************************************)
\* The caller creates at most MaxNodes nodes.
MaxNodes == 3
\* The caller asserts at most MaxConstraints constraints.
MaxConstraints == 2
\* The caller calls fill_nodes at most MaxPasses times.
MaxPasses == 2
\* Constraints and repeated passes are explored on graphs of at most
\* SmallGraph nodes.
SmallGraph == 2
\* The second caller (SpecWide) creates at most WideNodes nodes.
WideNodes == 4
\* The rayon pool has NumThreads worker threads.
NumThreads == 2
\* Node values are u32 in the source; the model keeps the wrap-around
\* arithmetic with a word of Width bits instead of 32.
Width == 2
\* The input map of a fill_nodes call has at most MaxKeys keys.
MaxKeys == 2
\* Values the caller passes to constant() and puts in the input map.
MaxVal == 2

RECURSIVE Pow2(_)
Pow2(n) == IF n = 0 THEN 1 ELSE 2 * Pow2(n - 1)

\* u32::MAX + 1, scaled to Width bits.
Modulus == Pow2(Width)

ConstVals == 1..MaxVal
InVals == 0..MaxVal

Max(a, b) == IF a >= b THEN a ELSE b

(***************************************************************************)
(* Panic messages of the source.                                           *)
(***************************************************************************)
NodeMissing == "One of the nodes does not exist."
DependentMissing == "Dependent node does not exist."
InputMissing == "Input node value not provided."
HintMissing == "Hint function not found."
HintError == "Hint function error: Division by zero"
AddOverflow == "attempt to add with overflow"
MulOverflow == "attempt to multiply with overflow"
UnwrapNone == "called Option::unwrap() on a None value"

VARIABLES
    nodes,        \* CompGraph.nodes: index -> Node
    constraints,  \* CompGraph.constraints: sequence of <<a, b>>
    hints,        \* CompGraph.hints: Hint node index -> registered callback
    filled,       \* CompGraph.filled
    levels,       \* CompGraph.levels: levels[L + 1] is the set of level L
    pc,           \* idle, resolve (inside fill_nodes) or aborted (panicked)
    input_nodes,  \* the argument of the fill_nodes call in progress / last made
    cur,          \* position in `levels` of the level being resolved
    todo,         \* items of the par_iter of the current level not yet picked up
    stack,        \* per item being run by a pool thread, its fill_node call stack
    panicked,     \* panic raised by a pool thread of the current level, or "none"
    panic_msg,    \* message of the panic that ended the process, or "none"
    lastCall,     \* name of the most recent API call
    ret,          \* its return value (an index, a boolean) or "unit"
    diagnostics,  \* lines the most recent check_constraints wrote to stderr
    passes,       \* number of fill_nodes calls made
    args,         \* the index arguments of the most recent API call
    pre,          \* history: the cells and the previous input map, as they
                  \* were when the most recent fill_nodes call was made
    hist          \* history of the current pass: set_value calls per node,
                  \* callback invocations per Hint node, and the Hint nodes
                  \* whose callback returned Err

vars == <<nodes, constraints, hints, filled, levels, pc, input_nodes, cur, todo,
          stack, panicked, panic_msg, lastCall, ret, diagnostics, passes, args,
          pre, hist>>

(***************************************************************************)
(* NodeType and Node.                                                      *)
(***************************************************************************)
Constant(v) == [kind |-> "Constant", val |-> v, left |-> 0, right |-> 0,
                operation |-> "-", dependent |-> 0]
Input == [kind |-> "Input", val |-> 0, left |-> 0, right |-> 0,
          operation |-> "-", dependent |-> 0]
Derived(l, r, op) == [kind |-> "Derived", val |-> 0, left |-> l, right |-> r,
                      operation |-> op, dependent |-> 0]
Hint(d) == [kind |-> "Hint", val |-> 0, left |-> 0, right |-> 0,
            operation |-> "-", dependent |-> d]

\* Node::new
NewNode(idx, node_type, lvl) ==
    [index |-> idx, value |-> 0, is_some |-> FALSE, node_type |-> node_type,
     level |-> lvl]

\* Node::get_value, both loads taken together: <<present, value>>.
get_value(node) == IF node.is_some THEN <<TRUE, node.value>> ELSE <<FALSE, 0>>

\* Node::set_value, both stores taken together.
set_value(node, v) == [node EXCEPT !.value = v, !.is_some = TRUE]

\* nodes.len() off by one: the first index handed out is 1.
NodesLenPlusOne == Cardinality(DOMAIN nodes) + 1

\* self.nodes.len()
NodesLen == Cardinality(DOMAIN nodes)

\* self.nodes.contains_key(&i)
contains_key(i) == i \in DOMAIN nodes

\* self.nodes.insert(idx, new_node)
Insert(idx, node) == [i \in DOMAIN nodes \cup {idx} |->
                         IF i = idx THEN node ELSE nodes[i]]

\* add_to_level that grows the sequence but forgets the insert.
add_to_level_no_insert(idx, lvl) ==
    IF lvl >= Len(levels) THEN Append(levels, {}) ELSE levels

\* add_to_level that pushes a new set on every call.
add_to_level_push_always(idx, lvl) ==
    [Append(levels, {}) EXCEPT ![lvl + 1] = @ \cup {idx}]

\* CompGraph::add_to_level: the level sets after add_to_level(idx, lvl).
add_to_level(idx, lvl) ==
    LET grown == IF lvl >= Len(levels) THEN Append(levels, {}) ELSE levels
    IN  [grown EXCEPT ![lvl + 1] = @ \cup {idx}]

(***************************************************************************)
(* Hint callbacks the caller registers (the closures of the tests).        *)
(***************************************************************************)
HintFns == {"div"}

\* hint_fn(v): <<TRUE, value>> for Ok(value), <<FALSE, 0>> for Err(_).
CallHint(f, v) ==
    IF f = "div"
    THEN IF v = 0 THEN <<FALSE, 0>> ELSE <<TRUE, v \div 2>>
    ELSE <<TRUE, v>>

(***************************************************************************)
(* CompGraph::new                                                          *)
(***************************************************************************)
Init ==
    /\ nodes = [i \in {} |-> 0]
    /\ constraints = <<>>
    /\ hints = [i \in {} |-> 0]
    /\ filled = FALSE
    /\ levels = <<{}>>
    /\ pc = "idle"
    /\ input_nodes = [i \in {} |-> 0]
    /\ cur = 0
    /\ todo = {}
    /\ stack = [t \in {} |-> <<>>]
    /\ panicked = "none"
    /\ panic_msg = "none"
    /\ lastCall = "new"
    /\ ret = "unit"
    /\ diagnostics = <<>>
    /\ passes = 0
    /\ args = <<>>
    /\ pre = [cells |-> [i \in {} |-> 0], input |-> [i \in {} |-> 0]]
    /\ hist = [writes |-> [i \in {} |-> 0], calls |-> [i \in {} |-> 0],
               failed |-> {}]

(***************************************************************************)
(* The builder.                                                            *)
(***************************************************************************)
\* Index arguments the caller passes: every existing index and one that no
\* builder call has produced.
ArgIdx == 0..NodesLen

\* A panic! in a builder call, before anything is mutated: the process ends.
BuilderPanic(call, a, msg) ==
    /\ pc' = "aborted"
    /\ panic_msg' = msg
    /\ lastCall' = call
    /\ args' = a
    /\ UNCHANGED <<nodes, constraints, hints, filled, levels, input_nodes, cur,
                   todo, stack, panicked, ret, diagnostics, passes, pre, hist>>

\* A builder call returning r.
Returns(call, a, r) ==
    /\ lastCall' = call
    /\ args' = a
    /\ ret' = r
    /\ UNCHANGED <<pc, input_nodes, cur, todo, stack, panicked, panic_msg,
                   diagnostics, passes, pre, hist>>

\* CompGraph::init
init ==
    /\ pc = "idle"
    /\ LET idx == NodesLen
       IN  /\ nodes' = Insert(idx, NewNode(idx, Input, 0))
           /\ levels' = [levels EXCEPT ![1] = @ \cup {idx}]
           /\ Returns("init", <<>>, idx)
    /\ UNCHANGED <<constraints, hints, filled>>

\* CompGraph::constant
constant(value) ==
    /\ pc = "idle"
    /\ LET idx == NodesLen
       IN  /\ nodes' = Insert(idx, set_value(NewNode(idx, Constant(value), 0), value))
           /\ levels' = [levels EXCEPT ![1] = @ \cup {idx}]
           /\ Returns("constant", <<>>, idx)
    /\ UNCHANGED <<constraints, hints, filled>>

\* new_level without the + 1.
new_level_flat(a, b) == Max(nodes[a].level, nodes[b].level)

\* new_level of add and mul: std::cmp::max(a_level, b_level) + 1
new_level(a, b) == Max(nodes[a].level, nodes[b].level) + 1

\* CompGraph::add
add(a, b) ==
    /\ pc = "idle"
    /\ \/ /\ ~contains_key(a) \/ ~contains_key(b)
          /\ BuilderPanic("add", <<a, b>>, NodeMissing)
       \/ /\ contains_key(a) /\ contains_key(b)
          /\ LET idx == NodesLen
             IN  /\ nodes' = Insert(idx, NewNode(idx, Derived(a, b, "Add"), new_level(a, b)))
                 /\ levels' = add_to_level(idx, new_level(a, b))
                 /\ Returns("add", <<a, b>>, idx)
          /\ UNCHANGED <<constraints, hints, filled>>

\* CompGraph::mul
mul(a, b) ==
    /\ pc = "idle"
    /\ \/ /\ ~contains_key(a) \/ ~contains_key(b)
          /\ BuilderPanic("mul", <<a, b>>, NodeMissing)
       \/ /\ contains_key(a) /\ contains_key(b)
          /\ LET idx == NodesLen
             IN  /\ nodes' = Insert(idx, NewNode(idx, Derived(a, b, "Mul"), new_level(a, b)))
                 /\ levels' = add_to_level(idx, new_level(a, b))
                 /\ Returns("mul", <<a, b>>, idx)
          /\ UNCHANGED <<constraints, hints, filled>>

\* assert_equal that records the pair before it validates the indices.
assert_equal_push_first(a, b) ==
    /\ pc = "idle"
    /\ constraints' = Append(constraints, <<a, b>>)
    /\ \/ /\ ~contains_key(a) \/ ~contains_key(b)
          /\ pc' = "aborted"
          /\ panic_msg' = NodeMissing
          /\ lastCall' = "assert_equal"
          /\ args' = <<a, b>>
          /\ UNCHANGED <<nodes, hints, filled, levels, input_nodes, cur, todo,
                         stack, panicked, ret, diagnostics, passes, pre, hist>>
       \/ /\ contains_key(a) /\ contains_key(b)
          /\ Returns("assert_equal", <<a, b>>, "unit")
          /\ UNCHANGED <<nodes, hints, filled, levels>>

\* CompGraph::assert_equal
assert_equal(a, b) ==
    /\ pc = "idle"
    /\ \/ /\ ~contains_key(a) \/ ~contains_key(b)
          /\ BuilderPanic("assert_equal", <<a, b>>, NodeMissing)
       \/ /\ contains_key(a) /\ contains_key(b)
          /\ constraints' = Append(constraints, <<a, b>>)
          /\ Returns("assert_equal", <<a, b>>, "unit")
          /\ UNCHANGED <<nodes, hints, filled, levels>>

\* hint_level without the + 1: the Hint node shares the level of its dependent.
hint_level_same(dependent_idx) == nodes[dependent_idx].level

\* level of a new Hint node: dep_level + 1
hint_level(dependent_idx) == nodes[dependent_idx].level + 1

\* CompGraph::hint
hint(dependent_idx, hint_fn) ==
    /\ pc = "idle"
    /\ \/ /\ ~contains_key(dependent_idx)
          /\ BuilderPanic("hint", <<dependent_idx>>, DependentMissing)
       \/ /\ contains_key(dependent_idx)
          /\ LET idx == NodesLen
             IN  /\ nodes' = Insert(idx, NewNode(idx, Hint(dependent_idx),
                                                 hint_level(dependent_idx)))
                 /\ hints' = [i \in DOMAIN hints \cup {idx} |->
                                 IF i = idx THEN hint_fn ELSE hints[i]]
                 /\ levels' = add_to_level(idx, hint_level(dependent_idx))
                 /\ Returns("hint", <<dependent_idx>>, idx)
          /\ UNCHANGED <<constraints, filled>>

(***************************************************************************)
(* The caller.  It builds the graph before it evaluates it, and stays      *)
(* within the bounds: constraints and repeated passes are explored on      *)
(* graphs of at most SmallGraph nodes.                                     *)
(***************************************************************************)
Bounded ==
    /\ NodesLen <= (IF constraints = <<>> THEN MaxNodes ELSE SmallGraph)
    /\ Len(constraints) <= MaxConstraints

MayFill ==
    \/ passes = 0
    \/ passes < MaxPasses /\ NodesLen <= SmallGraph /\ constraints = <<>>

Build ==
    \/ passes = 0 /\ init /\ Bounded'
    \/ \E v \in ConstVals : passes = 0 /\ constant(v) /\ Bounded'
    \/ \E a, b \in ArgIdx : passes = 0 /\ add(a, b) /\ Bounded'
    \/ \E a, b \in ArgIdx : passes = 0 /\ mul(a, b) /\ Bounded'
    \/ \E a, b \in ArgIdx : passes = 0 /\ assert_equal(a, b) /\ Bounded'
    \/ \E d \in ArgIdx, f \in HintFns : passes = 0 /\ hint(d, f) /\ Bounded'

(***************************************************************************)
(* fill_nodes: the seed loop, then one par_iter().for_each per level.      *)
(***************************************************************************)
\* Input maps the caller passes: any set of keys among the existing indices
\* and one index that names no node.
Assignments ==
    UNION {[K -> InVals] : K \in {S \in SUBSET ArgIdx : Cardinality(S) <= MaxKeys}}

\* Seeded that first empties every cell but those of the Constant nodes.
SeededAfterReset(input) ==
    [i \in DOMAIN nodes |->
        IF i \in DOMAIN input THEN set_value(nodes[i], input[i])
        ELSE IF nodes[i].node_type.kind = "Constant" THEN nodes[i]
        ELSE [nodes[i] EXCEPT !.value = 0, !.is_some = FALSE]]

\* Seeded that writes Input nodes only.
SeededInputsOnly(input) ==
    [i \in DOMAIN nodes |->
        IF i \in DOMAIN input /\ nodes[i].node_type.kind = "Input"
        THEN set_value(nodes[i], input[i]) ELSE nodes[i]]

\* for (idx, &val) in &input_nodes { if let Some(node) = ... { node.set_value(val) } }
Seeded(input) ==
    [i \in DOMAIN nodes |->
        IF i \in DOMAIN input THEN set_value(nodes[i], input[i]) ELSE nodes[i]]

\* fill_nodes is called: the seed loop runs (single-threaded) and the
\* par_iter over the first level set is entered.
fill_nodes(input) ==
    /\ pc = "idle"
    /\ nodes' = Seeded(input)
    /\ input_nodes' = input
    /\ pc' = "resolve"
    /\ cur' = 1
    /\ todo' = levels[1]
    /\ passes' = passes + 1
    /\ lastCall' = "fill_nodes"
    /\ args' = <<>>
    /\ ret' = "unit"
    /\ pre' = [cells |-> [i \in DOMAIN nodes |-> get_value(nodes[i])],
               input |-> input_nodes]
    /\ hist' = [writes |-> [i \in DOMAIN input \cap DOMAIN nodes |-> 1],
                calls |-> [i \in {} |-> 0], failed |-> {}]
    /\ UNCHANGED <<constraints, hints, filled, levels, stack, panicked,
                   panic_msg, diagnostics>>

\* A fill_node activation: the node, the point reached in the body, the
\* left value already obtained and the computed result.
Frame(n) == [n |-> n, pc |-> "is_some", lv |-> 0, res |-> 0]

Top(stk) == stk[Len(stk)]
Pop(stk) == SubSeq(stk, 1, Len(stk) - 1)
SetTop(stk, f) == [stk EXCEPT ![Len(stk)] = f]

\* One more occurrence of n in the count f.
Count(f, n) ==
    [i \in DOMAIN f \cup {n} |->
        IF i = n THEN (IF n \in DOMAIN f THEN f[n] + 1 ELSE 1) ELSE f[i]]

\* The history after the top frame of stk returns v: when the caller is a
\* Hint node waiting for its dependent, `hint_fn(dep_value)` is invoked.
Invoked(stk, v) ==
    IF Len(stk) >= 2 /\ stk[Len(stk) - 1].pc = "dependent"
                     /\ stk[Len(stk) - 1].n \in DOMAIN hints
    THEN LET h == stk[Len(stk) - 1].n
         IN  [hist EXCEPT !.calls = Count(@, h),
                          !.failed = IF CallHint(hints[h], v)[1] THEN @
                                     ELSE @ \cup {h}]
    ELSE hist

\* The items in flight; a pool thread is known by the item it is running.
Running == DOMAIN stack

\* An idle pool thread picks up the closure of item n of the current level
\* and calls fill_node(n).
Pick(n) ==
    /\ pc = "resolve"
    /\ Cardinality(Running) < NumThreads
    /\ n \in todo
    /\ todo' = todo \ {n}
    /\ stack' = [t \in Running \cup {n} |-> IF t = n THEN <<Frame(n)>> ELSE stack[t]]
    /\ UNCHANGED <<nodes, constraints, hints, filled, levels, pc, input_nodes,
                   cur, panicked, panic_msg, lastCall, ret, diagnostics, passes,
                   args, pre, hist>>

\* Combine with the two operators exchanged.
CombineSwapped(operation, left_value, right_value) ==
    IF operation = "Add" THEN left_value * right_value
    ELSE left_value + right_value

\* left_value + right_value / left_value * right_value before any wrapping.
Combine(operation, left_value, right_value) ==
    IF operation = "Add" THEN left_value + right_value
    ELSE left_value * right_value

\* What a frame does with the value v its callee returned: the set of
\* possible outcomes [stack, panic].  An overflowing + or * panics in a build
\* with overflow checks and wraps in one without.
Resume(stk, v) ==
    LET f == Top(stk)
        node == nodes[f.n]
        ty == node.node_type
    IN  IF f.pc = "left"
        THEN {[stack |-> Append(SetTop(stk, [f EXCEPT !.pc = "right", !.lv = v]),
                                Frame(ty.right)),
               panic |-> "none"]}
        ELSE IF f.pc = "right"
        THEN LET raw == Combine(ty.operation, f.lv, v)
                 ok == [stack |-> SetTop(stk, [f EXCEPT !.pc = "store_value",
                                                        !.res = raw % Modulus]),
                        panic |-> "none"]
             IN  IF raw < Modulus THEN {ok}
                 ELSE {ok, [stack |-> <<>>,
                            panic |-> IF ty.operation = "Add" THEN AddOverflow
                                      ELSE MulOverflow]}
        ELSE \* f.pc = "dependent"
             IF f.n \notin DOMAIN hints
             THEN {[stack |-> <<>>, panic |-> HintMissing]}
             ELSE LET r == CallHint(hints[f.n], v)
                  IN  IF r[1]
                      THEN {[stack |-> SetTop(stk, [f EXCEPT !.pc = "store_value",
                                                             !.res = r[2]]),
                             panic |-> "none"]}
                      ELSE {[stack |-> <<>>, panic |-> HintError]}

\* The top frame returns v: the thread is done with its item, or its caller
\* resumes.
Return(stk, v) ==
    IF Len(stk) = 1 THEN {[stack |-> <<>>, panic |-> "none"]}
    ELSE Resume(Pop(stk), v)

\* The thread running item t continues as outcome o says: with an empty
\* stack it is idle again.  A panic unwinds its stack and is kept for the
\* join (of several panics of one level, either may surface).
Continue(t, o) ==
    /\ stack' = IF o.stack = <<>>
                THEN [u \in Running \ {t} |-> stack[u]]
                ELSE [stack EXCEPT ![t] = o.stack]
    /\ \/ /\ o.panic = "none"
          /\ panicked' = panicked
       \/ /\ o.panic # "none"
          /\ panicked' \in {o.panic} \cup ({panicked} \ {"none"})

\* Populated without the memoisation: every call recomputes.
PopulatedNever(node) == FALSE

\* `if let Some(val) = node.get_value()`: what the load of is_some decides.
Populated(node) == node.is_some

\* lookup_input with a default for a missing key (unwrap_or_default).
lookup_input_or_default(node_idx) ==
    IF node_idx \in DOMAIN input_nodes THEN <<TRUE, input_nodes[node_idx]>>
    ELSE <<TRUE, 0>>

\* input_nodes.get(&node_idx): <<found, value>>.
lookup_input(node_idx) ==
    IF node_idx \in DOMAIN input_nodes THEN <<TRUE, input_nodes[node_idx]>>
    ELSE <<FALSE, 0>>

\* fill_node, `node.get_value()`: the load of is_some, and for an empty cell
\* the dispatch on the node type up to the next access to a cell.
LoadIsSome(t) ==
    /\ pc = "resolve"
    /\ Top(stack[t]).pc = "is_some"
    /\ LET stk == stack[t]
           f == Top(stk)
           node == nodes[f.n]
           ty == node.node_type
           o == IF Populated(node)
                THEN [stack |-> SetTop(stk, [f EXCEPT !.pc = "value"]), panic |-> "none"]
                ELSE IF ty.kind = "Constant"
                THEN [stack |-> SetTop(stk, [f EXCEPT !.pc = "store_value",
                                                      !.res = ty.val]),
                      panic |-> "none"]
                ELSE IF ty.kind = "Input"
                THEN IF lookup_input(f.n)[1]
                     THEN [stack |-> SetTop(stk, [f EXCEPT !.pc = "store_value",
                                                           !.res = lookup_input(f.n)[2]]),
                           panic |-> "none"]
                     ELSE [stack |-> <<>>, panic |-> InputMissing]
                ELSE IF ty.kind = "Derived"
                THEN [stack |-> Append(SetTop(stk, [f EXCEPT !.pc = "left"]),
                                       Frame(ty.left)),
                      panic |-> "none"]
                ELSE [stack |-> Append(SetTop(stk, [f EXCEPT !.pc = "dependent"]),
                                       Frame(ty.dependent)),
                      panic |-> "none"]
       IN  Continue(t, o)
    /\ UNCHANGED <<nodes, constraints, hints, filled, levels, pc, input_nodes,
                   cur, todo, panic_msg, lastCall, ret, diagnostics, passes,
                   args, pre, hist>>

\* fill_node, `node.get_value()` on a populated cell: the load of value and
\* `return val`.
LoadValue(t) ==
    /\ pc = "resolve"
    /\ Top(stack[t]).pc = "value"
    /\ \E o \in Return(stack[t], nodes[Top(stack[t]).n].value) : Continue(t, o)
    /\ hist' = Invoked(stack[t], nodes[Top(stack[t]).n].value)
    /\ UNCHANGED <<nodes, constraints, hints, filled, levels, pc, input_nodes,
                   cur, todo, panic_msg, lastCall, ret, diagnostics, passes,
                   args, pre>>

\* fill_node, `node.set_value(res)`: self.value.store(value)
StoreValue(t) ==
    /\ pc = "resolve"
    /\ Top(stack[t]).pc = "store_value"
    /\ LET f == Top(stack[t])
       IN  /\ nodes' = [nodes EXCEPT ![f.n].value = f.res]
           /\ stack' = [stack EXCEPT ![t] = SetTop(@, [f EXCEPT !.pc = "store_is_some"])]
           /\ hist' = [hist EXCEPT !.writes = Count(@, f.n)]
    /\ UNCHANGED <<constraints, hints, filled, levels, pc, input_nodes, cur,
                   todo, panicked, panic_msg, lastCall, ret, diagnostics, passes,
                   args, pre>>

\* StoreIsSome without the store: set_value leaves is_some as it was.
StoreIsSomeSkipped(t) ==
    /\ pc = "resolve"
    /\ Top(stack[t]).pc = "store_is_some"
    /\ LET f == Top(stack[t])
       IN  /\ \E o \in Return(stack[t], f.res) : Continue(t, o)
           /\ hist' = Invoked(stack[t], f.res)
    /\ UNCHANGED <<nodes, constraints, hints, filled, levels, pc, input_nodes,
                   cur, todo, panic_msg, lastCall, ret, diagnostics, passes,
                   args, pre>>

\* fill_node, `node.set_value(res)`: self.is_some.store(true), then `res`
\* is returned.
StoreIsSome(t) ==
    /\ pc = "resolve"
    /\ Top(stack[t]).pc = "store_is_some"
    /\ LET f == Top(stack[t])
       IN  /\ nodes' = [nodes EXCEPT ![f.n].is_some = TRUE]
           /\ \E o \in Return(stack[t], f.res) : Continue(t, o)
           /\ hist' = Invoked(stack[t], f.res)
    /\ UNCHANGED <<constraints, hints, filled, levels, pc, input_nodes, cur,
                   todo, panic_msg, lastCall, ret, diagnostics, passes,
                   args, pre>>

\* LevelComplete without the join: the items have all been handed out.
LevelHandedOut == todo = {}

\* for_each returns when every item of the level has been run.
LevelComplete ==
    /\ todo = {}
    /\ Running = {}

\* `for level in &self.levels`: the next level set is entered.
NextLevel ==
    /\ pc = "resolve"
    /\ panicked = "none"
    /\ LevelComplete
    /\ cur < Len(levels)
    /\ cur' = cur + 1
    /\ todo' = levels[cur + 1]
    /\ UNCHANGED <<nodes, constraints, hints, filled, levels, pc, input_nodes,
                   stack, panicked, panic_msg, lastCall, ret, diagnostics, passes,
                   args, pre, hist>>

\* After the last level: self.filled = true, and fill_nodes returns.
FillReturn ==
    /\ pc = "resolve"
    /\ panicked = "none"
    /\ LevelComplete
    /\ cur = Len(levels)
    /\ filled' = TRUE
    /\ pc' = "idle"
    /\ cur' = 0
    /\ UNCHANGED <<nodes, constraints, hints, levels, input_nodes, todo, stack,
                   panicked, panic_msg, lastCall, ret, diagnostics, passes,
                   args, pre, hist>>

\* A closure panicked: once no pool thread is running an item any more (the
\* items not yet picked up may or may not be run), for_each resumes the
\* panic in the caller and the process ends.
Unwind ==
    /\ pc = "resolve"
    /\ panicked # "none"
    /\ Running = {}
    /\ pc' = "aborted"
    /\ panic_msg' = panicked
    /\ UNCHANGED <<nodes, constraints, hints, filled, levels, input_nodes, cur,
                   todo, stack, panicked, lastCall, ret, diagnostics, passes,
                   args, pre, hist>>

\* The steps inside a fill_nodes call.
Resolve ==
    \/ \E n \in todo : Pick(n)
    \/ \E t \in Running : LoadIsSome(t)
    \/ \E t \in Running : LoadValue(t)
    \/ \E t \in Running : StoreValue(t)
    \/ \E t \in Running : StoreIsSome(t)
    \/ NextLevel
    \/ FillReturn
    \/ Unwind

Fill ==
    \/ \E input \in Assignments : MayFill /\ fill_nodes(input)
    \/ Resolve

(***************************************************************************)
(* check_constraints                                                       *)
(***************************************************************************)
\* The eprintln! of a violated pair.
Diagnostic(n1, val1, n2, val2) == [n1 |-> n1, val1 |-> val1, n2 |-> n2, val2 |-> val2]

\* all_from that looks at one pair only and takes the rest for granted.
all_from_one_pair(cs, i, out) ==
    IF i > Len(cs) THEN [panic |-> FALSE, result |-> TRUE, out |-> out]
    ELSE LET n1 == cs[i][1]
             n2 == cs[i][2]
             val1 == get_value(nodes[n1])
             val2 == get_value(nodes[n2])
         IN  IF ~val1[1] \/ ~val2[1]
             THEN [panic |-> TRUE, result |-> FALSE, out |-> out]
             ELSE IF val1[2] # val2[2]
             THEN [panic |-> FALSE, result |-> FALSE,
                   out |-> Append(out, Diagnostic(n1, val1[2], n2, val2[2]))]
             ELSE [panic |-> FALSE, result |-> TRUE, out |-> out]

\* all_from with an ordered comparison: a pair is violated when val1 > val2.
RECURSIVE all_from_ordered(_, _, _)
all_from_ordered(cs, i, out) ==
    IF i > Len(cs) THEN [panic |-> FALSE, result |-> TRUE, out |-> out]
    ELSE LET n1 == cs[i][1]
             n2 == cs[i][2]
             val1 == get_value(nodes[n1])
             val2 == get_value(nodes[n2])
         IN  IF ~val1[1] \/ ~val2[1]
             THEN [panic |-> TRUE, result |-> FALSE, out |-> out]
             ELSE IF val1[2] > val2[2]
             THEN [panic |-> FALSE, result |-> FALSE,
                   out |-> Append(out, Diagnostic(n1, val1[2], n2, val2[2]))]
             ELSE all_from_ordered(cs, i + 1, out)

\* cs.iter().all(|(n1, n2)| ...) from position i on, for the constraint
\* sequence cs and with the lines `out` written so far: [panic, result, out].
RECURSIVE all_from(_, _, _)
all_from(cs, i, out) ==
    IF i > Len(cs) THEN [panic |-> FALSE, result |-> TRUE, out |-> out]
    ELSE LET n1 == cs[i][1]
             n2 == cs[i][2]
             val1 == get_value(nodes[n1])
             val2 == get_value(nodes[n2])
         IN  IF ~val1[1] \/ ~val2[1]
             THEN [panic |-> TRUE, result |-> FALSE, out |-> out]
             ELSE IF val1[2] # val2[2]
             THEN [panic |-> FALSE, result |-> FALSE,
                   out |-> Append(out, Diagnostic(n1, val1[2], n2, val2[2]))]
             ELSE all_from(cs, i + 1, out)

\* CompGraph::check_constraints
check_constraints ==
    /\ pc = "idle"
    /\ LET r == all_from(constraints, 1, <<>>)
       IN  /\ diagnostics' = r.out
           /\ lastCall' = "check_constraints"
           /\ \/ /\ r.panic
                 /\ pc' = "aborted"
                 /\ panic_msg' = UnwrapNone
                 /\ ret' = ret
              \/ /\ ~r.panic
                 /\ ret' = r.result
                 /\ UNCHANGED <<pc, panic_msg>>
    /\ args' = <<>>
    /\ UNCHANGED <<nodes, constraints, hints, filled, levels, input_nodes, cur,
                   todo, stack, panicked, passes, pre, hist>>

Next == Build \/ Fill \/ check_constraints

Spec == Init /\ [][Next]_vars

(***************************************************************************)
(* A second caller, for the scheduling of the levels: graphs of up to      *)
(* WideNodes nodes without constraints, one constant and one input value,  *)
(* evaluated once with an input map that names the Input nodes, or all of  *)
(* them but one.                                                           *)
(***************************************************************************)
WideAssignments ==
    LET ins == {n \in DOMAIN nodes : nodes[n].node_type.kind = "Input"}
    IN  {[n \in K |-> MaxVal] : K \in {ins} \cup {ins \ {n} : n \in ins}}

BoundedWide == NodesLen <= WideNodes

BuildWide ==
    \/ passes = 0 /\ init /\ BoundedWide'
    \/ passes = 0 /\ constant(1) /\ BoundedWide'
    \/ \E a, b \in ArgIdx : passes = 0 /\ add(a, b) /\ BoundedWide'
    \/ \E a, b \in ArgIdx : passes = 0 /\ mul(a, b) /\ BoundedWide'
    \/ \E d \in ArgIdx, f \in HintFns : passes = 0 /\ hint(d, f) /\ BoundedWide'

FillWide ==
    \/ \E input \in WideAssignments : passes = 0 /\ fill_nodes(input)
    \/ Resolve

NextWide == BuildWide \/ FillWide

SpecWide == Init /\ [][NextWide]_vars

(***************************************************************************)
(* A third caller, for check_constraints on a graph that has not been      *)
(* evaluated: graphs of up to MaxNodes nodes with up to MaxConstraints     *)
(* constraints, checked without a fill_nodes call.                         *)
(***************************************************************************)
BoundedCheck ==
    /\ NodesLen <= MaxNodes
    /\ Len(constraints) <= MaxConstraints

BuildCheck ==
    \/ init /\ BoundedCheck'
    \/ \E v \in ConstVals : constant(v) /\ BoundedCheck'
    \/ \E a, b \in ArgIdx : add(a, b) /\ BoundedCheck'
    \/ \E a, b \in ArgIdx : mul(a, b) /\ BoundedCheck'
    \/ \E a, b \in ArgIdx : assert_equal(a, b) /\ BoundedCheck'
    \/ \E d \in ArgIdx, f \in HintFns : hint(d, f) /\ BoundedCheck'

NextCheck == BuildCheck \/ check_constraints

SpecCheck == Init /\ [][NextCheck]_vars

(***************************************************************************)
(* Vocabulary of the properties.                                           *)
(***************************************************************************)
Kind(n) == nodes[n].node_type.kind
NodesOf(k) == {n \in DOMAIN nodes : Kind(n) = k}
Val(n) == nodes[n].value
\* The most recent call was fill_nodes and it has returned normally.
FillReturned == pc = "idle" /\ lastCall = "fill_nodes"
\* The direct dependencies of a node.
Deps(n) ==
    IF Kind(n) = "Derived"
    THEN {nodes[n].node_type.left, nodes[n].node_type.right}
    ELSE IF Kind(n) = "Hint" THEN {nodes[n].node_type.dependent} ELSE {}

(***************************************************************************)
(* C1: after fill_nodes returns normally on a freshly built graph whose    *)
(* input map names exactly the Input nodes, every Derived node holds       *)
(* value(left) + value(right) (Add) or value(left) * value(right) (Mul)    *)
(* whenever that fits the word, and every Hint node holds the result of    *)
(* its callback on the value of its dependent.                             *)
(***************************************************************************)
C1_Case ==
    /\ FillReturned
    /\ passes = 1
    /\ DOMAIN input_nodes = NodesOf("Input")

C1_FillComputesOperators ==
    C1_Case =>
        /\ \A n \in NodesOf("Derived") :
              LET ty == nodes[n].node_type
                  exact == IF ty.operation = "Add" THEN Val(ty.left) + Val(ty.right)
                           ELSE Val(ty.left) * Val(ty.right)
              IN  exact < Modulus => nodes[n].is_some /\ Val(n) = exact
        /\ \A n \in NodesOf("Hint") :
              /\ nodes[n].is_some
              /\ CallHint(hints[n], Val(nodes[n].node_type.dependent)) = <<TRUE, Val(n)>>

C1_Witness ==
    /\ C1_Case
    /\ \E n \in NodesOf("Derived") :
          /\ nodes[n].node_type.left # nodes[n].node_type.right
          /\ Val(n) = Val(nodes[n].node_type.left) + Val(nodes[n].node_type.right)
          /\ Val(n) > Val(nodes[n].node_type.left)
          /\ Val(n) > Val(nodes[n].node_type.right)
    /\ \E n \in NodesOf("Hint") : Val(n) > 0

(***************************************************************************)
(* C2: after any sequence of builder calls every Input and Constant node   *)
(* has level 0, every Derived node has level max(level(left),              *)
(* level(right)) + 1 and every Hint node level(dependent) + 1; so every    *)
(* direct dependency of a node has a strictly lower level than the node.   *)
(***************************************************************************)
C2_Levels ==
    \A n \in DOMAIN nodes :
        LET ty == nodes[n].node_type
        IN  /\ ty.kind \in {"Input", "Constant"} => nodes[n].level = 0
            /\ ty.kind = "Derived" =>
                  /\ nodes[n].level >= nodes[ty.left].level + 1
                  /\ nodes[n].level >= nodes[ty.right].level + 1
                  /\ nodes[n].level \in {nodes[ty.left].level + 1,
                                         nodes[ty.right].level + 1}
            /\ ty.kind = "Hint" => nodes[n].level = nodes[ty.dependent].level + 1
            /\ \A d \in Deps(n) : nodes[d].level < nodes[n].level

C2_Witness ==
    /\ \E n \in NodesOf("Derived") :
          /\ nodes[n].level = 2
          /\ nodes[nodes[n].node_type.left].level # nodes[nodes[n].node_type.right].level
    /\ NodesOf("Hint") # {}

(***************************************************************************)
(* C3: during fill_nodes the levels are resolved in strictly increasing    *)
(* order with a barrier between them: while an item of level L + 1 is      *)
(* being resolved (or is still to be picked up), every node of a level     *)
(* up to L has a populated cell, whatever the interleaving of the pool     *)
(* threads.  Checked under SpecWide.                                       *)
(***************************************************************************)
C3_BarrierState ==
    /\ \A t \in Running \cup todo :
          /\ nodes[t].level = cur - 1
          /\ \A m \in DOMAIN nodes :
                nodes[m].level < nodes[t].level => nodes[m].is_some
    /\ \A t \in Running : \A i \in 1..Len(stack[t]) :
          nodes[stack[t][i].n].level <= cur - 1

C3_LevelOrder ==
    cur' # cur =>
        \/ cur' = cur + 1 /\ pc = "resolve" /\ pc' = "resolve"
        \/ cur' = 1 /\ pc = "idle" /\ pc' = "resolve"
        \/ cur' = 0 /\ pc' = "idle"

C3_LevelBarrier == [](C3_BarrierState) /\ [][C3_LevelOrder]_vars

\* An item of level 2 begins while level 1 holds two nodes, both populated
\* by the pool threads of level 1.
C3_Witness ==
    /\ passes = 1
    /\ cur = 3
    /\ Cardinality(levels[2]) = 2
    /\ \A n \in levels[2] : ~pre.cells[n][1] /\ n \notin DOMAIN input_nodes
    /\ \E t \in Running : Len(stack[t]) = 1 /\ stack[t][1].pc = "is_some"

(***************************************************************************)
(* C4: after fill_nodes returns without aborting, every node of the graph  *)
(* has a populated cell (get_value is present for every index).            *)
(***************************************************************************)
C4_AllPopulated ==
    FillReturned => \A n \in DOMAIN nodes : get_value(nodes[n])[1]

C4_Witness ==
    /\ FillReturned
    /\ passes = 1
    /\ Len(levels) = 3
    /\ NodesOf("Input") # {}
    /\ NodesOf("Derived") # {}
    /\ NodesOf("Hint") # {}
    /\ DOMAIN input_nodes = NodesOf("Input")
    /\ \A n \in DOMAIN nodes : get_value(nodes[n])[1]

(***************************************************************************)
(* C5: a Constant node holds the value given to constant(v) after any      *)
(* fill_nodes call, with any input map, also one whose keys name the       *)
(* Constant node.                                                          *)
(***************************************************************************)
C5_ConstantInvariance ==
    FillReturned =>
        \A n \in NodesOf("Constant") :
            get_value(nodes[n]) = <<TRUE, nodes[n].node_type.val>>

(***************************************************************************)
(* C6: when check_constraints returns false, its diagnostics name every    *)
(* violated pair of the constraint sequence, with both values.             *)
(***************************************************************************)
C6_EveryViolationReported ==
    (pc = "idle" /\ lastCall = "check_constraints" /\ ret = FALSE) =>
        /\ \A i \in DOMAIN constraints :
              LET a == constraints[i][1]
                  b == constraints[i][2]
              IN  Val(a) # Val(b) =>
                      \E j \in DOMAIN diagnostics :
                          diagnostics[j] = Diagnostic(a, Val(a), b, Val(b))
        /\ Len(diagnostics) =
              Cardinality({i \in DOMAIN constraints :
                              Val(constraints[i][1]) # Val(constraints[i][2])})

(***************************************************************************)
(* C7: fill_nodes aborts with "Input node value not provided." whenever    *)
(* some Input node is absent from the input map, stores nothing in that    *)
(* node's cell and does not set the evaluated flag.                        *)
(*                                                                         *)
(* C7_AnyAbsentInputAborts states this for every absent Input node.        *)
(* C7_EmptyAbsentInputAborts states it for the absent Input nodes whose    *)
(* cell was empty when fill_nodes was called.                              *)
(***************************************************************************)
AbsentInputs == {n \in NodesOf("Input") : n \notin DOMAIN input_nodes}
EmptyAbsentInputs == {n \in AbsentInputs : ~pre.cells[n][1]}

C7_AnyAbsentInputAborts ==
    (lastCall = "fill_nodes" /\ AbsentInputs # {}) =>
        /\ pc # "idle"
        /\ pc = "aborted" => panic_msg = InputMissing

C7_EmptyState ==
    (lastCall = "fill_nodes" /\ EmptyAbsentInputs # {}) =>
        /\ pc # "idle"
        /\ pc = "aborted" => panic_msg = InputMissing
        /\ \A n \in EmptyAbsentInputs : ~nodes[n].is_some /\ nodes[n].value = 0

C7_EmptyStep ==
    (lastCall' = "fill_nodes" /\ EmptyAbsentInputs' # {}) => filled' = filled

C7_EmptyAbsentInputAborts == [](C7_EmptyState) /\ [][C7_EmptyStep]_vars

\* The abort, for an absent Input node that nothing depends on.
C7_Witness ==
    /\ pc = "aborted"
    /\ lastCall = "fill_nodes"
    /\ panic_msg = InputMissing
    /\ ~filled
    /\ NodesLen >= 2
    /\ \E n \in EmptyAbsentInputs : \A m \in DOMAIN nodes : n \notin Deps(m)

(***************************************************************************)
(* C8: add, mul, assert_equal and hint abort when an index argument names  *)
(* no existing node, and the abort leaves the graph as it was: no node, no *)
(* index, no level set entry, no constraint and no callback is added.      *)
(***************************************************************************)
IndexCalls == {"add", "mul", "assert_equal", "hint"}

C8_Step ==
    (/\ pc = "idle"
     /\ lastCall' \in IndexCalls
     /\ \E i \in DOMAIN args' : args'[i] \notin DOMAIN nodes) =>
        /\ pc' = "aborted"
        /\ panic_msg' = IF lastCall' = "hint" THEN DependentMissing ELSE NodeMissing
        /\ nodes' = nodes
        /\ levels' = levels
        /\ constraints' = constraints
        /\ hints' = hints
        /\ filled' = filled

C8_AbortLeavesGraph == [][C8_Step]_vars

\* An aborted call on a graph with nodes, one argument naming a node and one
\* naming none.
C8_Witness ==
    /\ pc = "aborted"
    /\ lastCall \in IndexCalls
    /\ panic_msg = NodeMissing
    /\ NodesLen >= 2
    /\ \E i \in DOMAIN args : args[i] \in DOMAIN nodes
    /\ \E i \in DOMAIN args : args[i] \notin DOMAIN nodes

(***************************************************************************)
(* C9: on a graph whose constrained nodes are all populated,               *)
(* check_constraints returns true exactly when value(a) = value(b) for     *)
(* every pair of the constraint sequence (true for the empty sequence); a  *)
(* mismatch gives false, never an abort.                                   *)
(***************************************************************************)
C9_Case ==
    /\ lastCall = "check_constraints"
    /\ \A i \in DOMAIN constraints :
          nodes[constraints[i][1]].is_some /\ nodes[constraints[i][2]].is_some

C9_CheckResult ==
    C9_Case =>
        /\ pc = "idle"
        /\ ret = (\A i \in DOMAIN constraints :
                     Val(constraints[i][1]) = Val(constraints[i][2]))

\* false because of the second pair, after an evaluation.
C9_Witness ==
    /\ C9_Case
    /\ pc = "idle"
    /\ passes >= 1
    /\ NodesOf("Input") # {}
    /\ Len(constraints) = 2
    /\ Val(constraints[1][1]) = Val(constraints[1][2])
    /\ Val(constraints[2][1]) # Val(constraints[2][2])
    /\ ret = FALSE

(***************************************************************************)
(* C10: evaluation is deterministic.  Whatever the interleaving of the     *)
(* pool threads, after fill_nodes returns every node holds the value that  *)
(* the graph, the cells at the call and the input map determine; and a     *)
(* second fill_nodes with the same input map leaves every value as it was. *)
(***************************************************************************)
\* The value the graph, the cells at the call and the input map determine.
RECURSIVE Expected(_)
Expected(n) ==
    IF n \in DOMAIN input_nodes THEN input_nodes[n]
    ELSE IF pre.cells[n][1] THEN pre.cells[n][2]
    ELSE LET ty == nodes[n].node_type
         IN  IF ty.kind = "Constant" THEN ty.val
             ELSE IF ty.kind = "Derived"
             THEN (IF ty.operation = "Add"
                   THEN Expected(ty.left) + Expected(ty.right)
                   ELSE Expected(ty.left) * Expected(ty.right)) % Modulus
             ELSE IF ty.kind = "Hint"
             THEN CallHint(hints[n], Expected(ty.dependent))[2]
             ELSE 0

C10_Deterministic ==
    FillReturned =>
        /\ \A n \in DOMAIN nodes : get_value(nodes[n]) = <<TRUE, Expected(n)>>
        /\ (passes >= 2 /\ input_nodes = pre.input) =>
              \A n \in DOMAIN nodes : get_value(nodes[n]) = pre.cells[n]

\* A second pass with the same, non-empty map over a graph with a node the
\* first pass computed.
C10_Witness ==
    /\ FillReturned
    /\ passes = 2
    /\ input_nodes = pre.input
    /\ DOMAIN input_nodes # {}
    /\ \E n \in NodesOf("Derived") \cup NodesOf("Hint") :
          n \notin DOMAIN input_nodes /\ Val(n) > 0

(***************************************************************************)
(* C11: if the callback of a Hint node returns a failure for the resolved  *)
(* value of its dependent, fill_nodes never returns normally, the cell of  *)
(* the Hint node stays unpopulated, no node that depends on the Hint node  *)
(* (directly or through other nodes) is populated, and the evaluated flag  *)
(* is not set.                                                             *)
(***************************************************************************)
\* Node m depends on node h, directly or through other nodes.
RECURSIVE DependsOn(_, _)
DependsOn(m, h) == h \in Deps(m) \/ \E d \in Deps(m) : DependsOn(d, h)

C11_HintFailureAborts ==
    \A h \in hist.failed :
        /\ pc # "idle"
        /\ ~filled
        /\ ~nodes[h].is_some
        /\ \A m \in DOMAIN nodes : DependsOn(m, h) => ~nodes[m].is_some

(***************************************************************************)
(* C12: node indices are handed out in creation order from 0, none reused  *)
(* and none skipped.  After any sequence of builder calls, aborted ones    *)
(* included, the indices are exactly 0 .. n - 1 for the n successful       *)
(* init/constant/add/mul/hint calls; the call that creates the k-th node   *)
(* returns k - 1 (each such call adds exactly the index equal to the       *)
(* number of nodes before it and returns it, and nothing else adds or      *)
(* removes an index); the dependencies of a Derived or Hint node have      *)
(* smaller indices than the node.                                          *)
(***************************************************************************)
Creators == {"init", "constant", "add", "mul", "hint"}
Created == Cardinality(DOMAIN nodes)

C12_State ==
    /\ DOMAIN nodes = 0 .. (Created - 1)
    /\ \A n \in DOMAIN nodes :
          /\ nodes[n].index = n
          /\ \A d \in Deps(n) : d \in DOMAIN nodes /\ d < n
    /\ (lastCall \in Creators /\ pc = "idle") => ret = Created - 1

C12_Step ==
    /\ (lastCall' \in Creators /\ pc' = "idle") =>
          /\ DOMAIN nodes' = DOMAIN nodes \cup {Created}
          /\ Created \notin DOMAIN nodes
          /\ ret' = Created
          /\ \A n \in DOMAIN nodes : nodes'[n] = nodes[n]
    /\ ~(lastCall' \in Creators /\ pc' = "idle") => DOMAIN nodes' = DOMAIN nodes

C12_IndexOrder == [](C12_State) /\ [][C12_Step]_vars

\* Three nodes, a Derived and a Hint node among them, and then an aborted
\* builder call.
C12_Witness ==
    /\ pc = "aborted"
    /\ lastCall \in {"add", "mul", "hint"}
    /\ Created = 3
    /\ NodesOf("Derived") # {}
    /\ NodesOf("Hint") # {}

(***************************************************************************)
(* C13: constraint symmetry.  On an evaluated graph the result of          *)
(* check_constraints is the same whether a constraint was recorded by      *)
(* assert_equal(a, b) or by assert_equal(b, a), the other constraints      *)
(* being the same: the result the call returned is the result of the       *)
(* check over the sequence with any one pair exchanged.                    *)
(***************************************************************************)
\* The constraint sequence had pair i been recorded the other way round.
Exchanged(i) == [constraints EXCEPT ![i] = <<constraints[i][2], constraints[i][1]>>]

C13_Case == pc = "idle" /\ filled /\ lastCall = "check_constraints"

C13_Symmetry ==
    C13_Case =>
        \A i \in DOMAIN constraints :
            LET r == all_from(Exchanged(i), 1, <<>>)
            IN  ~r.panic /\ r.result = ret

\* The check returned false for a pair of two different nodes, the first of
\* them holding the smaller value, that follows a pair that holds.
C13_Witness ==
    /\ C13_Case
    /\ Len(constraints) = 2
    /\ constraints[2][1] # constraints[2][2]
    /\ Val(constraints[1][1]) = Val(constraints[1][2])
    /\ Val(constraints[2][1]) < Val(constraints[2][2])
    /\ ret = FALSE

(***************************************************************************)
(* C14: during the parallel resolution of one level the workers never      *)
(* touch each other's cells.  The worker resolving node n of level L       *)
(* writes only the cell of n (and no cell changes but by such a write),    *)
(* and no cell is read or written by one worker while another worker       *)
(* writes it, under every interleaving.  Checked under SpecWide.           *)
(*                                                                         *)
(* C14_ReadsBelowOnly adds, as the claim words it, that the worker reads   *)
(* only cells of nodes at levels strictly below L.                         *)
(* C14_ReadsOwnOrBelow adds instead that it reads only the cell of n       *)
(* itself and cells of nodes at levels strictly below L.                   *)
(***************************************************************************)
\* The worker of item t takes a step.
Steps(t) == t \in Running /\ (t \notin DOMAIN stack' \/ stack'[t] # stack[t])
\* The step loads is_some or value of the cell of m.
ReadsCell(t, m) ==
    /\ Steps(t)
    /\ Top(stack[t]).n = m
    /\ Top(stack[t]).pc \in {"is_some", "value"}
\* The step stores value or is_some of the cell of m.
WritesCell(t, m) ==
    /\ Steps(t)
    /\ Top(stack[t]).n = m
    /\ Top(stack[t]).pc \in {"store_value", "store_is_some"}
\* The worker of item t is inside set_value on the cell of m.
Writing(t, m) ==
    /\ Top(stack[t]).n = m
    /\ Top(stack[t]).pc \in {"store_value", "store_is_some"}

C14_WriteStep ==
    pc = "resolve" =>
        /\ \A t \in Running : \A m \in DOMAIN nodes : WritesCell(t, m) => m = t
        /\ \A m \in DOMAIN nodes :
              nodes'[m] # nodes[m] => \E t \in Running : WritesCell(t, m)

C14_NoRace ==
    \A t, u \in Running : \A m \in DOMAIN nodes :
        (t # u /\ Writing(u, m)) => Top(stack[t]).n # m

C14_ReadsBelowOnlyStep ==
    \A t \in Running : \A m \in DOMAIN nodes :
        ReadsCell(t, m) => nodes[m].level < nodes[t].level

C14_ReadsOwnOrBelowStep ==
    \A t \in Running : \A m \in DOMAIN nodes :
        ReadsCell(t, m) => (m = t \/ nodes[m].level < nodes[t].level)

C14_ReadsBelowOnly ==
    [](C14_NoRace) /\ [][C14_WriteStep /\ C14_ReadsBelowOnlyStep]_vars

C14_ReadsOwnOrBelow ==
    [](C14_NoRace) /\ [][C14_WriteStep /\ C14_ReadsOwnOrBelowStep]_vars

\* Two workers of level 1 at once: one inside set_value on its own cell,
\* the other loading the value of a dependency.
C14_Witness ==
    /\ pc = "resolve"
    /\ cur = 2
    /\ \E t, u \in Running :
          /\ t # u
          /\ Writing(u, u) /\ Top(stack[u]).pc = "store_is_some"
          /\ Len(stack[t]) = 2 /\ Top(stack[t]).pc = "value"

(***************************************************************************)
(* C15: within one fill_nodes pass every node is evaluated at most once.   *)
(* Each cell is the target of at most one set_value during the pass, the   *)
(* one of the seed loop or one of the resolution, never both; the callback *)
(* of each Hint node is invoked at most once; and every recursive          *)
(* fill_node call on a dependency finds the cell of the dependency         *)
(* populated and returns the value it holds without computing it again.    *)
(***************************************************************************)
C15_EvaluatedOnce ==
    /\ \A n \in DOMAIN hist.writes : hist.writes[n] <= 1
    /\ \A h \in DOMAIN hist.calls : hist.calls[h] <= 1
    /\ \A t \in Running : \A i \in 2..Len(stack[t]) :
          /\ stack[t][i].pc \in {"is_some", "value"}
          /\ nodes[stack[t][i].n].is_some

\* A first pass has returned: an Input node was written by the seed loop, a
\* Hint node and a Derived node that depends on it by the resolution, and
\* the callback ran.
C15_Witness ==
    /\ FillReturned
    /\ passes = 1
    /\ \E n \in NodesOf("Input") : n \in DOMAIN input_nodes /\ n \in DOMAIN hist.writes
    /\ \E h \in NodesOf("Hint") :
          /\ h \notin DOMAIN input_nodes
          /\ h \in DOMAIN hist.writes
          /\ h \in DOMAIN hist.calls
          /\ \E d \in NodesOf("Derived") :
                h \in Deps(d) /\ d \notin DOMAIN input_nodes /\ d \in DOMAIN hist.writes

(***************************************************************************)
(* C16: the seed phase of fill_nodes populates every existing node that a  *)
(* key of the input map names with the value of the map, whatever the      *)
(* kind of the node, and the resolution never overwrites it: from the seed *)
(* loop on, hence after fill_nodes returns, a Derived, Hint or Constant    *)
(* node named in the map holds the value of the map, not its computed or   *)
(* constructed value.  A key that names no existing node is ignored        *)
(* without error: it creates no node, and every abort of the call has a    *)
(* cause of its own (an Input node left without a value, a failed          *)
(* callback, an overflowing operation).                                    *)
(***************************************************************************)
ForeignKeys == DOMAIN input_nodes \ DOMAIN nodes

C16_State ==
    lastCall = "fill_nodes" =>
        /\ \A n \in DOMAIN input_nodes \cap DOMAIN nodes :
              get_value(nodes[n]) = <<TRUE, input_nodes[n]>>
        /\ pc = "aborted" =>
              \/ panic_msg = InputMissing /\ EmptyAbsentInputs # {}
              \/ panic_msg = HintError /\ hist.failed # {}
              \/ /\ panic_msg \in {AddOverflow, MulOverflow}
                 /\ \E n \in NodesOf("Derived") :
                       LET ty == nodes[n].node_type
                       IN  /\ Combine(ty.operation, Val(ty.left), Val(ty.right)) >= Modulus
                           /\ panic_msg = IF ty.operation = "Add" THEN AddOverflow
                                          ELSE MulOverflow

C16_Step ==
    lastCall' = "fill_nodes" => DOMAIN nodes' = DOMAIN nodes

C16_SeedAnyKind == [](C16_State) /\ [][C16_Step]_vars

\* fill_nodes has returned with a map that names a Derived node, whose
\* cell holds the value of the map and not the result of its operation,
\* and a key that names no node.
C16_Witness ==
    /\ FillReturned
    /\ ForeignKeys # {}
    /\ \E n \in NodesOf("Derived") \cap DOMAIN input_nodes :
          LET ty == nodes[n].node_type
          IN  /\ get_value(nodes[n]) = <<TRUE, input_nodes[n]>>
              /\ Val(n) # Combine(ty.operation, Val(ty.left), Val(ty.right)) % Modulus

(***************************************************************************)
(* C17: after any sequence of builder calls the level index partitions the *)
(* nodes by level.  Every node index is in exactly one level set, the one  *)
(* at the position of the level of the node; level 0 holds exactly the     *)
(* Input and Constant nodes; there are as many level sets as the highest   *)
(* node level plus one (one, empty, for the empty graph), so no level set  *)
(* above 0 is empty and add_to_level never indexes past the end: the level *)
(* of every new node is at most the number of level sets before the call.  *)
(***************************************************************************)
RECURSIVE MaxLevel(_)
MaxLevel(S) ==
    IF S = {} THEN 0
    ELSE LET n == CHOOSE x \in S : TRUE
         IN  Max(nodes[n].level, MaxLevel(S \ {n}))

C17_State ==
    /\ \A n \in DOMAIN nodes :
          /\ nodes[n].level + 1 \in DOMAIN levels
          /\ \A L \in DOMAIN levels : n \in levels[L] <=> L = nodes[n].level + 1
    /\ \A L \in DOMAIN levels : levels[L] \subseteq DOMAIN nodes
    /\ levels[1] = NodesOf("Input") \cup NodesOf("Constant")
    /\ Len(levels) = MaxLevel(DOMAIN nodes) + 1
    /\ \A L \in 2..Len(levels) : levels[L] # {}

C17_Step ==
    (lastCall' \in Creators /\ pc' = "idle") =>
        \A n \in DOMAIN nodes' \ DOMAIN nodes : nodes'[n].level <= Len(levels)

C17_LevelPartition == [](C17_State) /\ [][C17_Step]_vars

\* Three level sets, with a Hint node and a Derived node above level 0.
C17_Witness ==
    /\ Len(levels) = 3
    /\ levels[1] # {}
    /\ \E h \in NodesOf("Hint"), d \in NodesOf("Derived") :
          nodes[h].level # nodes[d].level

(***************************************************************************)
(* C18: fill_nodes on an already evaluated graph changes only the cells of *)
(* the nodes that the new input map names.  Every other node, a Derived or *)
(* Hint node that depends on a re-seeded node included, keeps the value of *)
(* the earlier pass all through the call (no set_value by the resolution,  *)
(* no callback), and the call does not abort; so after a second pass with  *)
(* other input values a Derived node may hold a value that is not the      *)
(* result of its operation on the values its dependencies hold now.        *)
(***************************************************************************)
C18_Case == lastCall = "fill_nodes" /\ passes >= 2

C18_RefillFrame ==
    C18_Case =>
        /\ filled
        /\ pc # "aborted"
        /\ \A n \in DOMAIN nodes \ DOMAIN input_nodes :
              pre.cells[n][1] /\ get_value(nodes[n]) = pre.cells[n]
        /\ DOMAIN hist.writes \subseteq DOMAIN input_nodes
        /\ DOMAIN hist.calls = {}

\* The second pass has returned; an Input node holds another value than
\* before, and a Derived node that depends on it still holds the value of
\* the first pass, which is not the (fitting) result of its operation now.
C18_Witness ==
    /\ C18_Case
    /\ pc = "idle"
    /\ \E d \in NodesOf("Derived") \ DOMAIN input_nodes :
          LET ty == nodes[d].node_type
              now == Combine(ty.operation, Val(ty.left), Val(ty.right))
          IN  /\ \E x \in Deps(d) \cap NodesOf("Input") \cap DOMAIN input_nodes :
                    pre.cells[x][2] # Val(x)
              /\ now < Modulus
              /\ Val(d) # now

(***************************************************************************)
(* C19: check_constraints aborts whenever some pair of the constraint      *)
(* sequence has a node whose cell is unpopulated (as when it is called     *)
(* before fill_nodes with a constraint over an Input or Derived node), and *)
(* reports no boolean result then.  Checked under SpecCheck.               *)
(***************************************************************************)
UnpopulatedPairs ==
    {i \in DOMAIN constraints :
        ~nodes[constraints[i][1]].is_some \/ ~nodes[constraints[i][2]].is_some}

C19_UnpopulatedAborts ==
    (lastCall = "check_constraints" /\ UnpopulatedPairs # {}) =>
        pc = "aborted" /\ panic_msg = UnwrapNone

====
